---- MODULE Spec2Model ----
(***************************************************************************)
(* Plant disease diagnosis: the analysis service (the edge function        *)
(* analyze-plant-disease) and the page that calls it (Index with           *)
(* ImageUpload and AnalysisResults).                                       *)
(*                                                                         *)
(* ServiceSpec is one invocation after another of the service handler.     *)
(* Spec is the page: user actions interleaved with the completions of the  *)
(* analysis calls, file reads, timers and captures it has started.         *)
(***************************************************************************)
EXTENDS Integers, Sequences, FiniteSets, Bags, TLC

VARIABLES
    \* ---- the service handler (index.ts) ----
    hpc,            \* position of the handler: idle, readBody, fetching, readErrorText, readReply, done
    req,            \* the request being served: [method, body]
    keyPresent,     \* whether Deno.env holds LOVABLE_API_KEY
    reply,          \* what the gateway answered: [status, payload, content, text]
    fetchCalls,     \* requests sent to the gateway in this invocation
    tried,          \* extraction strategies attempted in this invocation
    resp,           \* the Response returned (NoResponse until then)
    \* ---- the page (Index, ImageUpload, AnalysisResults) ----
    results,        \* which of the two AnalysisResults of the source the page renders:
                    \*   1 (ImageUpload.tsx:164, generatePDF) or
                    \*   2 (ImageUpload.tsx:492, generatePDFInLanguage)
    imagePreview,   \* Index.imagePreview: 0 is null, otherwise the image
    language,       \* Index.language
    isAnalyzing,    \* Index.isAnalyzing
    analysisData,   \* Index.analysisData: <<>> is null, otherwise <<record>>
    isGeneratingPDF,\* AnalysisResults.isGeneratingPDF of the mounted instance
    currentData,    \* AnalysisResults.currentData of the mounted instance (<<>>: none mounted)
    currentLanguage,\* AnalysisResults.currentLanguage of the mounted instance
    readers,        \* FileReader loads in progress: the images being read
    analyzeOp,      \* the pending call of handleAnalyze: <<>> or <<[lang, img]>>
    pdfOps,         \* the invocations of the export in progress: a bag of records
                    \*   [sel, img, pc, live, reanalyzed, from, shot]
    lastToast,      \* the toast the last step showed: [title, cause] (NoToast: none)
    lastSaved       \* the document the last step saved: <<>> or <<[sel, lang, data, chart]>>

serviceVars == <<hpc, req, keyPresent, reply, fetchCalls, tried, resp>>
held == <<analysisData, language, currentData, currentLanguage>>
pageVars == <<results, imagePreview, language, isAnalyzing, analysisData, isGeneratingPDF,
              currentData, currentLanguage, readers, analyzeOp, pdfOps,
              lastToast, lastSaved>>
vars == <<serviceVars, pageVars>>

(***************************************************************************)
(* Bounds of the model                                                     *)
(***************************************************************************)
MaxSegs == 4        \* a model reply is made of at most this many segments
NumLangs == 2       \* how many entries of the language catalog the user picks from
NumImages == 1      \* distinct image files the user has at hand
MaxPdfOps == 1      \* generatePDFInLanguage invocations in progress at once
MaxReaders == 1     \* file reads in progress at once
NumFiles == 2       \* UploadSpec: distinct image files the user has at hand
MaxReads == 2       \* UploadSpec: file reads in progress at once

(***************************************************************************)
(* Text of a model reply, as a sequence of lexical tokens:                 *)
(*   "F" a triple backtick, "j" the word json, "s" white space,            *)
(*   "p" prose (no brace, no backtick, not JSON), "{" and "}",             *)
(*   and the members of an object: "V" those of a valid AnalysisRecord,    *)
(*   "R" the same with the elements of symptoms in the other order,        *)
(*   "C" the same with confidence 150, "S" with severity "extreme",        *)
(*   "M" with the symptoms array missing.                                  *)
(* The members of a valid AnalysisRecord one of whose strings holds a      *)
(* triple backtick are the three tokens "Vh", "F", "Vt": what comes before *)
(* the backticks, the backticks, and what comes after them.                *)
(***************************************************************************)
BodyTokens == {"V", "R", "C", "S", "M"}

\* The kinds of object a reply can hold: one per body token, and "T" for the record
\* with a triple backtick in a string.
Kinds == BodyTokens \cup {"T"}

Segments == << <<"p">>, <<"s">>, <<"F">>, <<"j">>,
               <<"{", "V", "}">>, <<"{", "R", "}">>, <<"{", "C", "}">>, <<"{", "S", "}">>,
               <<"{", "M", "}">>, <<"{", "Vh", "F", "Vt", "}">> >>

RECURSIVE TextsOfLen(_)
TextsOfLen(n) ==
    IF n = 0 THEN {<<>>}
    ELSE {t \o Segments[i] : t \in TextsOfLen(n - 1), i \in 1..Len(Segments)}

\* The texts of at most n segments.
Texts(n) == UNION {TextsOfLen(m) : m \in 0..n}

\* The value a JSON object of the given kind denotes.
FieldsOf(b) ==
    [hasAllFields |-> b # "M",
     confidence   |-> IF b = "C" THEN 150 ELSE 87,
     severity     |-> IF b = "S" THEN "extreme" ELSE "high",
     spreadRate   |-> "moderate",
     symptoms     |-> IF b = "M" THEN <<>>
                      ELSE IF b = "R" THEN <<"wilting", "spots">>
                      ELSE <<"spots", "wilting">>,
     description  |-> IF b = "T" THEN "with backticks" ELSE "plain"]

\* The AnalysisRecord schema of the specification (data model).
SchemaValid(v) ==
    /\ v.hasAllFields
    /\ v.confidence \in 0..100
    /\ v.severity \in {"low", "moderate", "high", "critical"}
    /\ v.spreadRate \in {"low", "moderate", "high"}

\* The kinds of object that are valid AnalysisRecords.
ValidKinds == {k \in Kinds : SchemaValid(FieldsOf(k))}

\* JSON white space is insignificant between tokens.
RECURSIVE DropSpace(_)
DropSpace(t) ==
    IF t = <<>> THEN <<>>
    ELSE IF Head(t) = "s" THEN DropSpace(Tail(t))
    ELSE <<Head(t)>> \o DropSpace(Tail(t))

\* JSON.parse: succeeds exactly on one JSON value, here one object.
JsonParse(t) ==
    LET u == DropSpace(t) IN
    IF Len(u) = 3 /\ u[1] = "{" /\ u[2] \in BodyTokens /\ u[3] = "}"
    THEN [ok |-> TRUE, value |-> <<FieldsOf(u[2])>>]
    ELSE IF u = <<"{", "Vh", "F", "Vt", "}">>
    THEN [ok |-> TRUE, value |-> <<FieldsOf("T")>>]
    ELSE [ok |-> FALSE, value |-> <<>>]

\* The JSON text of an object of the given kind, without white space.
TextOf(k) == IF k = "T" THEN <<"{", "Vh", "F", "Vt", "}">> ELSE <<"{", k, "}">>

\* (mutant) a serialization that puts the elements of every array in one fixed order
JsonStringifySorted(v) ==
    LET k == CHOOSE b \in Kinds : FieldsOf(b) = v
    IN TextOf(IF k = "R" THEN "V" ELSE k)

\* JSON.stringify of a parsed value.
JsonStringify(v) == TextOf(CHOOSE b \in Kinds : FieldsOf(b) = v)

\* Positions of a token in a text.
Positions(t, tok) == {i \in 1..Len(t) : t[i] = tok}

Min(S) == CHOOSE x \in S : \A y \in S : x <= y
Max(S) == CHOOSE x \in S : \A y \in S : x >= y

RECURSIVE TrimLeft(_)
TrimLeft(t) == IF t # <<>> /\ Head(t) = "s" THEN TrimLeft(Tail(t)) ELSE t

RECURSIVE TrimRight(_)
TrimRight(t) ==
    IF t # <<>> /\ t[Len(t)] = "s" THEN TrimRight(SubSeq(t, 1, Len(t) - 1)) ELSE t

\* content.match(/```(?:json)?\s*([\s\S]*?)\s*```/): the first fence, an optional
\* json tag right after it, and the text up to the next fence, white space trimmed.
FenceMatch(t) ==
    LET fs == Positions(t, "F") IN
    IF Cardinality(fs) < 2 THEN [found |-> FALSE, group |-> <<>>]
    ELSE LET i == Min(fs)
             k == Min(fs \ {i})
             inner == SubSeq(t, i + 1, k - 1)
             untagged == IF inner # <<>> /\ Head(inner) = "j" THEN Tail(inner) ELSE inner
         IN [found |-> TRUE, group |-> TrimRight(TrimLeft(untagged))]

\* content.match(/\{[\s\S]*\}/): from the first "{" to the last "}".
ObjectMatch(t) ==
    LET os == Positions(t, "{")
        cs == Positions(t, "}")
    IN IF os = {} \/ cs = {} \/ Max(cs) < Min(os)
       THEN [found |-> FALSE, group |-> <<>>]
       ELSE [found |-> TRUE, group |-> SubSeq(t, Min(os), Max(cs))]

\* The JSON extraction of the handler: the value, or the error thrown, and the
\* strategies it attempted (1 whole text, 2 fenced block, 3 brace span).
ExtractJson(content) ==
    LET whole == JsonParse(content)
        jsonMatch == FenceMatch(content)
        objectMatch == ObjectMatch(content)
    IN IF whole.ok
       THEN [ok |-> TRUE, value |-> whole.value, tier |-> 1, tried |-> {1}, error |-> ""]
       ELSE IF jsonMatch.found
       THEN LET r == JsonParse(jsonMatch.group) IN
            IF r.ok
            THEN [ok |-> TRUE, value |-> r.value, tier |-> 2, tried |-> {1, 2}, error |-> ""]
            ELSE [ok |-> FALSE, value |-> <<>>, tier |-> 0, tried |-> {1, 2},
                  error |-> "SyntaxError"]
       ELSE IF objectMatch.found
       THEN LET r == JsonParse(objectMatch.group) IN
            IF r.ok
            THEN [ok |-> TRUE, value |-> r.value, tier |-> 3, tried |-> {1, 2, 3}, error |-> ""]
            ELSE [ok |-> FALSE, value |-> <<>>, tier |-> 0, tried |-> {1, 2, 3},
                  error |-> "SyntaxError"]
       ELSE [ok |-> FALSE, value |-> <<>>, tier |-> 0, tried |-> {1, 2, 3},
             error |-> "Could not extract JSON from response"]

(***************************************************************************)
(* The service handler (supabase/functions/analyze-plant-disease/index.ts) *)
(***************************************************************************)
Methods == {"OPTIONS", "POST"}

\* What req.json() finds: a body that is not JSON, the JSON value null (which cannot
\* be destructured), or a JSON object.
Bodies == {"unreadable", "null", "object"}

\* The non-2xx statuses of the gateway that the handler has no branch of its own for.
OtherStatuses == {500, 503}

\* What the body of a non-2xx reply of the gateway can say.
ErrorTexts == {"upstream detail 1", "upstream detail 2"}

\* What the gateway can answer. Status 0 stands for a fetch that rejects. A reply of
\* any status can have a body whose stream fails while it is read ("unreadable").
\* Otherwise a non-2xx reply has a body text, and a 2xx reply has a body that is not
\* JSON, the JSON value null, another JSON body without choices[0].message.content,
\* or a message content (a text of at most n segments).
Replies(n) ==
    {[status |-> 0, payload |-> "none", content |-> <<>>, text |-> ""]}
      \cup {[status |-> st, payload |-> "none", content |-> <<>>, text |-> x] :
               st \in {402, 429} \cup OtherStatuses, x \in ErrorTexts}
      \cup {[status |-> st, payload |-> "unreadable", content |-> <<>>, text |-> ""] :
               st \in {200, 402, 429} \cup OtherStatuses}
      \cup {[status |-> 200, payload |-> pl, content |-> <<>>, text |-> ""] :
               pl \in {"notjson", "null", "nocontent"}}
      \cup {[status |-> 200, payload |-> "content", content |-> t, text |-> ""] : t \in Texts(n)}

NoReply == [status |-> -1, payload |-> "none", content |-> <<>>, text |-> ""]

NoRequest == [method |-> "none", body |-> "none"]

NoResponse == [status |-> 0, kind |-> "none", error |-> "", body |-> <<>>, cors |-> FALSE]

\* new Response(null, { headers: corsHeaders })
PreflightResponse ==
    [status |-> 200, kind |-> "empty", error |-> "", body |-> <<>>, cors |-> TRUE]

\* (mutant) a failure response built without the CORS headers
ErrorResponseNoCors(status, msg) ==
    [status |-> status, kind |-> "error", error |-> msg, body |-> <<>>, cors |-> FALSE]

\* new Response(JSON.stringify({ error }), { status, headers: {...corsHeaders} })
ErrorResponse(status, msg) ==
    [status |-> status, kind |-> "error", error |-> msg, body |-> <<>>, cors |-> TRUE]

\* new Response(JSON.stringify(analysisResult), { status: 200, headers: {...corsHeaders} })
SuccessResponse(v) ==
    [status |-> 200, kind |-> "json", error |-> "", body |-> JsonStringify(v), cors |-> TRUE]

\* (mutant) an error thrown inside the handler that no catch block turns into a Response
Uncaught(msg) ==
    [status |-> 0, kind |-> "exception", error |-> msg, body |-> <<>>, cors |-> FALSE]

\* The catch block of the handler: every error thrown in the try becomes a 500.
Caught(msg) == ErrorResponse(500, msg)

\* (mutant) the 402 branch missing: 402 falls through to the generic failure
NotOkResponseNo402(status) ==
    IF status = 429
    THEN <<ErrorResponse(429, "Rate limit exceeded. Please try again later.")>>
    ELSE <<>>

\* The !response.ok branch: the response returned at once for 429 and 402, and none
\* for the other statuses (the handler goes on to read the error text).
NotOkResponse(status) ==
    IF status = 429
    THEN <<ErrorResponse(429, "Rate limit exceeded. Please try again later.")>>
    ELSE IF status = 402
    THEN <<ErrorResponse(402, "Payment required. Please add credits to your workspace.")>>
    ELSE <<>>

\* No request is being served.
HandlerIdle ==
    /\ hpc = "idle"
    /\ req = NoRequest
    /\ reply = NoReply
    /\ fetchCalls = 0
    /\ tried = {}
    /\ resp = NoResponse

\* A request arrives. A preflight is answered at once; any other request suspends at
\* await req.json().
Receive ==
    /\ hpc = "idle"
    /\ \E m \in Methods, b \in Bodies :
         /\ req' = [method |-> m, body |-> b]
         /\ IF m = "OPTIONS"
            THEN hpc' = "done" /\ resp' = PreflightResponse
            ELSE hpc' = "readBody" /\ resp' = NoResponse
    /\ reply' = NoReply
    /\ fetchCalls' = 0
    /\ tried' = {}
    /\ UNCHANGED <<keyPresent, pageVars>>

\* (mutant) the credential check missing: the request is sent without a key
BodyReadNoKeyCheck ==
    /\ hpc = "readBody"
    /\ IF req.body = "unreadable"
       THEN hpc' = "done" /\ resp' = Caught("SyntaxError") /\ UNCHANGED fetchCalls
       ELSE IF req.body = "null"
       THEN hpc' = "done" /\ resp' = Caught("TypeError") /\ UNCHANGED fetchCalls
       ELSE hpc' = "fetching" /\ fetchCalls' = fetchCalls + 1 /\ UNCHANGED resp
    /\ UNCHANGED <<req, keyPresent, reply, tried, pageVars>>

\* req.json() settles; the body is destructured, the credential is checked and the
\* request to the gateway is sent.
BodyRead ==
    /\ hpc = "readBody"
    /\ IF req.body = "unreadable"
       THEN hpc' = "done" /\ resp' = Caught("SyntaxError") /\ UNCHANGED fetchCalls
       ELSE IF req.body = "null"
       THEN hpc' = "done" /\ resp' = Caught("TypeError") /\ UNCHANGED fetchCalls
       ELSE IF ~keyPresent
       THEN hpc' = "done" /\ resp' = Caught("LOVABLE_API_KEY is not configured")
            /\ UNCHANGED fetchCalls
       ELSE hpc' = "fetching" /\ fetchCalls' = fetchCalls + 1 /\ UNCHANGED resp
    /\ UNCHANGED <<req, keyPresent, reply, tried, pageVars>>

\* (mutant) a rate-limited request is sent again
FetchReturnRetrying ==
    /\ hpc = "fetching"
    /\ \E r \in Replies(MaxSegs) :
         /\ reply' = r
         /\ IF r.status = 429 /\ fetchCalls < 2
            THEN hpc' = "fetching" /\ fetchCalls' = fetchCalls + 1 /\ UNCHANGED resp
            ELSE /\ UNCHANGED fetchCalls
                 /\ IF r.status = 0
                    THEN hpc' = "done" /\ resp' = Caught("fetch failed")
                    ELSE IF r.status = 200
                    THEN hpc' = "readReply" /\ UNCHANGED resp
                    ELSE IF NotOkResponse(r.status) # <<>>
                    THEN hpc' = "done" /\ resp' = NotOkResponse(r.status)[1]
                    ELSE hpc' = "readErrorText" /\ UNCHANGED resp
    /\ UNCHANGED <<req, keyPresent, tried, pageVars>>

\* fetch settles: it rejects, or it resolves with a status that is classified.
FetchReturn ==
    /\ hpc = "fetching"
    /\ \E r \in Replies(MaxSegs) :
         /\ reply' = r
         /\ IF r.status = 0
            THEN hpc' = "done" /\ resp' = Caught("fetch failed")
            ELSE IF r.status = 200
            THEN hpc' = "readReply" /\ UNCHANGED resp
            ELSE IF NotOkResponse(r.status) # <<>>
            THEN hpc' = "done" /\ resp' = NotOkResponse(r.status)[1]
            ELSE hpc' = "readErrorText" /\ UNCHANGED resp
    /\ UNCHANGED <<req, keyPresent, fetchCalls, tried, pageVars>>

\* response.text() settles for a non-2xx status other than 429 and 402: it rejects
\* and the rejection goes to the catch block with its own message, or the text is
\* logged and a generic error is thrown.
ErrorTextRead ==
    /\ hpc = "readErrorText"
    /\ hpc' = "done"
    /\ resp' = IF reply.payload = "unreadable"
               THEN Caught("body read failed")
               ELSE Caught("Failed to analyze image")
    /\ UNCHANGED <<req, keyPresent, reply, fetchCalls, tried, pageVars>>

\* What the handler makes of a 2xx reply: the response, and the strategies attempted.
ReplyResult(r) ==
    IF r.payload = "unreadable"
    THEN [resp |-> Caught("body read failed"), tried |-> {}]
    ELSE IF r.payload = "notjson"
    THEN [resp |-> Caught("SyntaxError"), tried |-> {}]
    ELSE IF r.payload = "null"
    THEN [resp |-> Caught("TypeError"), tried |-> {}]
    ELSE IF r.payload = "nocontent" \/ r.content = <<>>
    THEN [resp |-> Caught("No analysis result received"), tried |-> {}]
    ELSE LET x == ExtractJson(r.content) IN
         [resp |-> IF x.ok THEN SuccessResponse(x.value[1]) ELSE Caught(x.error),
          tried |-> x.tried]

\* response.json() settles for a 2xx status; the message content is extracted and
\* the value found in it is returned. (data.choices?.[0] does not guard data: on the
\* body null the read of data.choices throws.)
ReplyRead ==
    /\ hpc = "readReply"
    /\ hpc' = "done"
    /\ resp' = ReplyResult(reply).resp
    /\ tried' = ReplyResult(reply).tried
    /\ UNCHANGED <<req, keyPresent, reply, fetchCalls, pageVars>>

\* The response has been sent; the server waits for the next request.
Finish ==
    /\ hpc = "done"
    /\ hpc' = "idle"
    /\ req' = NoRequest
    /\ reply' = NoReply
    /\ fetchCalls' = 0
    /\ tried' = {}
    /\ resp' = NoResponse
    /\ UNCHANGED <<keyPresent, pageVars>>

ServiceNext ==
    \/ Receive
    \/ BodyRead
    \/ FetchReturn
    \/ ErrorTextRead
    \/ ReplyRead
    \/ Finish

(***************************************************************************)
(* The page: Index (src/unnamed/part_000), ImageUpload and AnalysisResults *)
(* (src/src/components/ImageUpload.tsx), LanguageSelector                  *)
(***************************************************************************)
\* (mutant) a catalog in which two entries have the same code
languagesDuplicated ==
    << [code |-> "en", name |-> "English"],   [code |-> "kn", name |-> "Kannada"],
       [code |-> "en", name |-> "Tamil"],     [code |-> "kn", name |-> "Malayalam"],
       [code |-> "te", name |-> "Telugu"],    [code |-> "hi", name |-> "Hindi"],
       [code |-> "bn", name |-> "Bengali"],   [code |-> "mr", name |-> "Marathi"],
       [code |-> "gu", name |-> "Gujarati"] >>

\* export const languages = [...]: the catalog, code and English name.
languages ==
    << [code |-> "en", name |-> "English"],   [code |-> "kn", name |-> "Kannada"],
       [code |-> "ta", name |-> "Tamil"],     [code |-> "ml", name |-> "Malayalam"],
       [code |-> "te", name |-> "Telugu"],    [code |-> "hi", name |-> "Hindi"],
       [code |-> "bn", name |-> "Bengali"],   [code |-> "mr", name |-> "Marathi"],
       [code |-> "gu", name |-> "Gujarati"] >>

\* The codes the user picks from in this model: the first NumLangs of the catalog.
Langs == {languages[i].code : i \in 1..NumLangs}

Images == 1..NumImages

\* The record a successful analysis call returns, named by the request it answers.
Record(lang, img) == [lang |-> lang, img |-> img]

Toast(title, cause) == [title |-> title, cause |-> cause]

NoToast == Toast("none", "none")

\* A step that shows no toast and saves no document.
Quiet == lastToast' = NoToast /\ lastSaved' = <<>>

RemoveAt(q, i) == SubSeq(q, 1, i - 1) \o SubSeq(q, i + 1, Len(q))

\* The AnalysisResults instance is mounted exactly while Index holds a record.
Mounted == analysisData # <<>>

\* One invocation more, one invocation less, one invocation moved on.
AddOp(ops, op) == ops (+) SetToBag({op})
DelOp(ops, op) == ops (-) SetToBag({op})
MoveOp(ops, op, next) == AddOp(DelOp(ops, op), next)

\* The invocations of generatePDFInLanguage that wait for their analysis call.
Invoking == [op \in {o \in BagToSet(pdfOps) : o.pc = "invoke"} |-> pdfOps[op]]

\* Calls of the analysis function that have been issued and have not settled.
InFlight == Len(analyzeOp) + BagCardinality(Invoking)

\* The invocations in progress once their instance is unmounted: its state setters
\* do nothing any more and its resultsRef.current is null.
Orphaned(ops) ==
    LET Dead(o) == [o EXCEPT !.live = FALSE, !.from = <<>>]
    IN BagOfAll(Dead, ops)

\* Index as first rendered: the useState initial values, nothing in progress.
PageIdle ==
    /\ imagePreview = 0
    /\ language = "en"
    /\ isAnalyzing = FALSE
    /\ analysisData = <<>>
    /\ isGeneratingPDF = FALSE
    /\ currentData = <<>>
    /\ currentLanguage = "none"
    /\ readers = <<>>
    /\ analyzeOp = <<>>
    /\ pdfOps = EmptyBag
    /\ lastToast = NoToast
    /\ lastSaved = <<>>

\* The record goes away (setAnalysisData(null)): the report and its instance unmount.
Unmount ==
    /\ analysisData' = <<>>
    /\ isGeneratingPDF' = FALSE
    /\ currentData' = <<>>
    /\ currentLanguage' = "none"
    /\ pdfOps' = Orphaned(pdfOps)

\* ImageUpload.handleDrop / handleFileInput: an image file is handed to a FileReader.
\* The drop zone and the file input are rendered while there is no preview and are
\* disabled while an analysis is running.
handleFileInput(img) ==
    /\ ~Mounted
    /\ imagePreview = 0
    /\ ~isAnalyzing
    /\ readers' = Append(readers, img)
    /\ UNCHANGED <<imagePreview, language, isAnalyzing, analysisData, isGeneratingPDF,
                   currentData, currentLanguage, analyzeOp, pdfOps, serviceVars, results>>
    /\ Quiet

\* reader.onload -> onImageSelect -> Index.handleImageSelect
handleImageSelect(i) ==
    /\ i \in DOMAIN readers
    /\ readers' = RemoveAt(readers, i)
    /\ imagePreview' = readers[i]
    /\ Unmount
    /\ Quiet
    /\ UNCHANGED <<language, isAnalyzing, analyzeOp, serviceVars, results>>

\* The X button of the preview (upload view, disabled while analyzing).
handleClearImage ==
    /\ ~Mounted
    /\ imagePreview # 0
    /\ ~isAnalyzing
    /\ imagePreview' = 0
    /\ Unmount
    /\ UNCHANGED <<language, isAnalyzing, readers, analyzeOp, serviceVars, results>>
    /\ Quiet

\* The header LanguageSelector: onChange={setLanguage}, disabled={isAnalyzing}.
setLanguage(l) ==
    /\ ~isAnalyzing
    /\ l # language
    /\ language' = l
    /\ UNCHANGED <<imagePreview, isAnalyzing, analysisData, isGeneratingPDF, currentData,
                   currentLanguage, readers, analyzeOp, pdfOps, serviceVars, results>>
    /\ Quiet

\* Index.handleAnalyze up to its await: the Analyze button is rendered in the upload
\* view while there is a preview and is disabled while isAnalyzing.
handleAnalyze ==
    /\ ~Mounted
    /\ imagePreview # 0
    /\ ~isAnalyzing
    /\ isAnalyzing' = TRUE
    /\ analyzeOp' = <<[lang |-> language, img |-> imagePreview]>>
    /\ UNCHANGED <<imagePreview, language, analysisData, isGeneratingPDF, currentData,
                   currentLanguage, readers, pdfOps, serviceVars, results>>
    /\ Quiet

\* (mutant) the flag is cleared in the try block only, not in a finally block
AnalyzeReturnNoFinally(ok) ==
    /\ analyzeOp # <<>>
    /\ analyzeOp' = <<>>
    /\ IF ok
       THEN /\ isAnalyzing' = FALSE
            /\ analysisData' = <<Record(analyzeOp[1].lang, analyzeOp[1].img)>>
            /\ lastToast' = Toast("Analysis Complete", "analysis")
            /\ IF Mounted
               THEN UNCHANGED <<isGeneratingPDF, currentData, currentLanguage>>
               ELSE /\ isGeneratingPDF' = FALSE
                    /\ currentData' = <<Record(analyzeOp[1].lang, analyzeOp[1].img)>>
                    /\ currentLanguage' = language
       ELSE /\ lastToast' = Toast("Analysis Failed", "analysis")
            /\ UNCHANGED <<isAnalyzing, analysisData, isGeneratingPDF, currentData,
                           currentLanguage>>
    /\ lastSaved' = <<>>
    /\ UNCHANGED <<imagePreview, language, readers, pdfOps, serviceVars, results>>

\* Index.handleAnalyze after its await: the call settles. On success the record is
\* stored (which mounts the report if none is shown); in both cases the flag is cleared.
AnalyzeReturn(ok) ==
    /\ analyzeOp # <<>>
    /\ analyzeOp' = <<>>
    /\ isAnalyzing' = FALSE
    /\ IF ok
       THEN /\ analysisData' = <<Record(analyzeOp[1].lang, analyzeOp[1].img)>>
            /\ lastToast' = Toast("Analysis Complete", "analysis")
            /\ IF Mounted
               THEN UNCHANGED <<isGeneratingPDF, currentData, currentLanguage>>
               ELSE /\ isGeneratingPDF' = FALSE
                    /\ currentData' = <<Record(analyzeOp[1].lang, analyzeOp[1].img)>>
                    /\ currentLanguage' = language
       ELSE /\ lastToast' = Toast("Analysis Failed", "analysis")
            /\ UNCHANGED <<analysisData, isGeneratingPDF, currentData, currentLanguage>>
    /\ lastSaved' = <<>>
    /\ UNCHANGED <<imagePreview, language, readers, pdfOps, serviceVars, results>>

\* The "Analyze Another Plant" button of the report view:
\* setAnalysisData(null); handleClearImage().
AnalyzeAnotherPlant ==
    /\ Mounted
    /\ imagePreview' = 0
    /\ Unmount
    /\ UNCHANGED <<language, isAnalyzing, readers, analyzeOp, serviceVars, results>>
    /\ Quiet

\* (mutant) the language comparison missing: every export analyses again
NeedsAnalysisAlways(selectedLanguage, cur) == TRUE

\* selectedLanguage !== currentLanguage
NeedsAnalysis(selectedLanguage, cur) == selectedLanguage # cur

\* What html2canvas is given and clones at once: the rendered report of the instance
\* (its language indicator, the language of the record its cards show, and the
\* language of the record its charts are drawn from, which is the data prop), or
\* nothing (<<>>) when resultsRef.current is null.
Surface(live) ==
    IF live /\ Mounted
    THEN <<[lang |-> currentLanguage, data |-> currentData[1].lang,
            chart |-> analysisData[1].lang]>>
    ELSE <<>>

\* The record and the language the instance holds, as an invocation finds them.
Held == <<[data |-> currentData[1].lang, lang |-> currentLanguage]>>

\* What html2canvas is given by the first AnalysisResults, which renders its data
\* prop in cards and charts and shows no language indicator.
SurfaceOfData ==
    <<[lang |-> "none", data |-> analysisData[1].lang, chart |-> analysisData[1].lang]>>

\* generatePDF of the first AnalysisResults up to its await: the "Download PDF
\* Report" button is clicked (it is never disabled, and no flag is set);
\* html2canvas is called on resultsRef.current.
generatePDF ==
    /\ results = 1
    /\ Mounted
    /\ pdfOps' = AddOp(pdfOps, [sel |-> "none", img |-> 0, pc |-> "canvas",
                                live |-> TRUE, reanalyzed |-> FALSE, from |-> Held,
                                shot |-> SurfaceOfData])
    /\ UNCHANGED <<imagePreview, language, isAnalyzing, analysisData, isGeneratingPDF,
                   currentData, currentLanguage, readers, analyzeOp, serviceVars,
                   results>>
    /\ Quiet

\* generatePDF after await html2canvas: the capture is assembled and saved under a
\* name without a language, or the catch block logs the error to the console; no
\* toast is shown in either case.
generatePDFReturn(op, ok) ==
    /\ results = 1
    /\ op \in BagToSet(pdfOps)
    /\ op.pc = "canvas"
    /\ lastSaved' = IF ok
                    THEN <<[sel |-> op.sel, lang |-> op.shot[1].lang,
                            data |-> op.shot[1].data, chart |-> op.shot[1].chart]>>
                    ELSE <<>>
    /\ lastToast' = NoToast
    /\ pdfOps' = DelOp(pdfOps, op)
    /\ UNCHANGED <<imagePreview, language, isAnalyzing, analysisData, isGeneratingPDF,
                   currentData, currentLanguage, readers, analyzeOp, serviceVars,
                   results>>

\* AnalysisResults.generatePDFInLanguage up to its first await: an item of the
\* language menu is clicked (the menu button is disabled while isGeneratingPDF).
generatePDFInLanguage(selectedLanguage) ==
    /\ results = 2
    /\ Mounted
    /\ ~isGeneratingPDF
    /\ isGeneratingPDF' = TRUE
    /\ IF NeedsAnalysis(selectedLanguage, currentLanguage)
       THEN /\ lastToast' = Toast("Translating...", "analysis")
            /\ pdfOps' = AddOp(pdfOps, [sel |-> selectedLanguage, img |-> imagePreview,
                                        pc |-> "invoke", live |-> TRUE,
                                        reanalyzed |-> TRUE, from |-> Held,
                                        shot |-> <<>>])
       ELSE /\ lastToast' = NoToast
            /\ pdfOps' = AddOp(pdfOps, [sel |-> selectedLanguage, img |-> 0,
                                        pc |-> "canvas", live |-> TRUE,
                                        reanalyzed |-> FALSE, from |-> Held,
                                        shot |-> Surface(TRUE)])
    /\ UNCHANGED <<imagePreview, language, isAnalyzing, analysisData, currentData,
                   currentLanguage, readers, analyzeOp, serviceVars, results>>
    /\ lastSaved' = <<>>

\* (mutant) the record and the language are stored before the error is looked at
ReanalysisReturnStoresFirst(op, ok) ==
    /\ op \in BagToSet(pdfOps)
    /\ op.pc = "invoke"
    /\ /\ language' = op.sel
       /\ currentLanguage' = IF op.live THEN op.sel ELSE currentLanguage
       /\ IF ok
          THEN /\ analysisData' = <<Record(op.sel, op.img)>>
               /\ currentData' = IF op.live \/ ~Mounted THEN <<Record(op.sel, op.img)>>
                                 ELSE currentData
               /\ pdfOps' = MoveOp(pdfOps, op, [op EXCEPT !.pc = "timer", !.img = 0])
               /\ lastToast' = NoToast
               /\ UNCHANGED isGeneratingPDF
          ELSE /\ lastToast' = Toast("PDF Generation Failed", "analysis")
               /\ pdfOps' = DelOp(pdfOps, op)
               /\ isGeneratingPDF' = IF op.live THEN FALSE ELSE isGeneratingPDF
               /\ UNCHANGED <<analysisData, currentData>>
    /\ lastSaved' = <<>>
    /\ UNCHANGED <<imagePreview, isAnalyzing, readers, analyzeOp, serviceVars, results>>

\* (mutant) the error of the call is not thrown: the invocation goes on to capture
ReanalysisReturnIgnoresError(op, ok) ==
    /\ op \in BagToSet(pdfOps)
    /\ op.pc = "invoke"
    /\ IF ok
       THEN /\ language' = op.sel
            /\ analysisData' = <<Record(op.sel, op.img)>>
            /\ IF op.live \/ ~Mounted
               THEN /\ currentData' = <<Record(op.sel, op.img)>>
                    /\ currentLanguage' = op.sel
               ELSE UNCHANGED <<currentData, currentLanguage>>
            /\ isGeneratingPDF' = IF ~Mounted THEN FALSE ELSE isGeneratingPDF
       ELSE UNCHANGED <<language, analysisData, currentData, currentLanguage,
                        isGeneratingPDF>>
    /\ pdfOps' = MoveOp(pdfOps, op, [op EXCEPT !.pc = "timer", !.img = 0])
    /\ lastToast' = NoToast
    /\ lastSaved' = <<>>
    /\ UNCHANGED <<imagePreview, isAnalyzing, readers, analyzeOp, serviceVars, results>>

\* generatePDFInLanguage after await supabase.functions.invoke: on an error the catch
\* block toasts and the flag is cleared; otherwise the record and the language are
\* stored in the instance and, through onLanguageChange, in Index, and the handler
\* waits for the 500 ms timer.
ReanalysisReturn(op, ok) ==
    /\ op \in BagToSet(pdfOps)
    /\ op.pc = "invoke"
    /\ IF ok
       THEN /\ language' = op.sel
            /\ analysisData' = <<Record(op.sel, op.img)>>
            /\ IF op.live \/ ~Mounted
               THEN /\ currentData' = <<Record(op.sel, op.img)>>
                    /\ currentLanguage' = op.sel
               ELSE UNCHANGED <<currentData, currentLanguage>>
            /\ isGeneratingPDF' = IF ~Mounted THEN FALSE ELSE isGeneratingPDF
            /\ pdfOps' = MoveOp(pdfOps, op, [op EXCEPT !.pc = "timer", !.img = 0])
            /\ lastToast' = NoToast
       ELSE /\ lastToast' = Toast("PDF Generation Failed", "analysis")
            /\ pdfOps' = DelOp(pdfOps, op)
            /\ isGeneratingPDF' = IF op.live THEN FALSE ELSE isGeneratingPDF
            /\ UNCHANGED <<language, analysisData, currentData, currentLanguage>>
    /\ lastSaved' = <<>>
    /\ UNCHANGED <<imagePreview, isAnalyzing, readers, analyzeOp, serviceVars, results>>

\* generatePDFInLanguage after the 500 ms timer: html2canvas is called on
\* resultsRef.current.
TimerFired(op) ==
    /\ op \in BagToSet(pdfOps)
    /\ op.pc = "timer"
    /\ pdfOps' = MoveOp(pdfOps, op, [op EXCEPT !.pc = "canvas", !.shot = Surface(op.live)])
    /\ UNCHANGED <<imagePreview, language, isAnalyzing, analysisData, isGeneratingPDF,
                   currentData, currentLanguage, readers, analyzeOp, serviceVars, results>>
    /\ Quiet

\* (mutant) a capture that fails makes the invocation analyse again
CaptureReturnReanalyses(op, ok) ==
    /\ results = 2
    /\ op \in BagToSet(pdfOps)
    /\ op.pc = "canvas"
    /\ op.shot = <<>> => ~ok
    /\ IF ok
       THEN /\ lastSaved' = <<[sel |-> op.sel, lang |-> op.shot[1].lang,
                               data |-> op.shot[1].data, chart |-> op.shot[1].chart]>>
            /\ lastToast' = Toast("PDF Downloaded", "export")
            /\ isGeneratingPDF' = IF op.live THEN FALSE ELSE isGeneratingPDF
            /\ pdfOps' = DelOp(pdfOps, op)
       ELSE /\ lastToast' = Toast("PDF Generation Failed", "capture")
            /\ lastSaved' = <<>>
            /\ UNCHANGED isGeneratingPDF
            /\ pdfOps' = MoveOp(pdfOps, op, [op EXCEPT !.pc = "invoke", !.shot = <<>>,
                                                       !.reanalyzed = TRUE])
    /\ UNCHANGED <<imagePreview, language, isAnalyzing, analysisData, currentData,
                   currentLanguage, readers, analyzeOp, serviceVars, results>>

\* generatePDFInLanguage after await html2canvas: the capture is assembled and saved,
\* or the catch block toasts; the flag is cleared. A capture of nothing rejects.
CaptureReturn(op, ok) ==
    /\ results = 2
    /\ op \in BagToSet(pdfOps)
    /\ op.pc = "canvas"
    /\ op.shot = <<>> => ~ok
    /\ /\ IF ok
          THEN /\ lastSaved' = <<[sel |-> op.sel, lang |-> op.shot[1].lang,
                                  data |-> op.shot[1].data, chart |-> op.shot[1].chart]>>
               /\ lastToast' = Toast("PDF Downloaded", "export")
          ELSE /\ lastToast' = Toast("PDF Generation Failed", "capture")
               /\ lastSaved' = <<>>
       /\ isGeneratingPDF' = IF op.live THEN FALSE ELSE isGeneratingPDF
    /\ pdfOps' = DelOp(pdfOps, op)
    /\ UNCHANGED <<imagePreview, language, isAnalyzing, analysisData, currentData,
                   currentLanguage, readers, analyzeOp, serviceVars, results>>

\* The page is loaded, built with one or the other AnalysisResults of the source; the
\* service it calls is deployed with its credential.
Init == PageIdle /\ results \in {1, 2} /\ HandlerIdle /\ keyPresent = TRUE

Next ==
    \/ \E img \in Images : Len(readers) < MaxReaders /\ handleFileInput(img)
    \/ \E i \in 1..MaxReaders : handleImageSelect(i)
    \/ handleClearImage
    \/ \E l \in Langs : setLanguage(l)
    \/ handleAnalyze
    \/ \E ok \in BOOLEAN : AnalyzeReturn(ok)
    \/ AnalyzeAnotherPlant
    \/ BagCardinality(pdfOps) < MaxPdfOps /\ generatePDF
    \/ \E op \in BagToSet(pdfOps), ok \in BOOLEAN : generatePDFReturn(op, ok)
    \/ \E l \in Langs : BagCardinality(pdfOps) < MaxPdfOps /\ generatePDFInLanguage(l)
    \/ \E op \in BagToSet(pdfOps), ok \in BOOLEAN : ReanalysisReturn(op, ok)
    \/ \E op \in BagToSet(pdfOps) : TimerFired(op)
    \/ \E op \in BagToSet(pdfOps), ok \in BOOLEAN : CaptureReturn(op, ok)

Spec == Init /\ [][Next]_vars

\* The service is deployed, with or without its credential.
ServiceInit == HandlerIdle /\ PageIdle /\ results = 2 /\ keyPresent \in BOOLEAN

ServiceSpec == ServiceInit /\ [][ServiceNext]_vars

\* The page when every call that is awaited settles and every timer fires: the
\* promise of supabase.functions.invoke, the 500 ms timer and the promise of
\* html2canvas are resumed by the event loop, whatever the user does meanwhile.
FairSpec ==
    /\ Init
    /\ [][Next]_vars
    /\ WF_vars(\E ok \in BOOLEAN : AnalyzeReturn(ok))
    /\ WF_vars(\E op \in BagToSet(pdfOps), ok \in BOOLEAN : ReanalysisReturn(op, ok))
    /\ WF_vars(\E op \in BagToSet(pdfOps) : TimerFired(op))
    /\ WF_vars(\E op \in BagToSet(pdfOps), ok \in BOOLEAN : CaptureReturn(op, ok))
    /\ WF_vars(\E op \in BagToSet(pdfOps), ok \in BOOLEAN : generatePDFReturn(op, ok))

\* The page while no report is exported: Index with ImageUpload and the analysis it
\* starts, with more files and more reads in progress than Spec affords.
UploadNext ==
    \/ \E img \in 1..NumFiles : Len(readers) < MaxReads /\ handleFileInput(img)
    \/ \E i \in 1..MaxReads : handleImageSelect(i)
    \/ handleClearImage
    \/ \E l \in Langs : setLanguage(l)
    \/ handleAnalyze
    \/ \E ok \in BOOLEAN : AnalyzeReturn(ok)
    \/ AnalyzeAnotherPlant

UploadSpec == Init /\ [][UploadNext]_vars

(***************************************************************************)
(* Properties of the page (checked under Spec)                             *)
(***************************************************************************)
\* The step is the failure of the analysis call of a re-analysis: the invocation
\* that was waiting for the call ends there.
ReanalysisFailsInStep ==
    \E op \in BagToSet(pdfOps) : op.pc = "invoke" /\ pdfOps' = DelOp(pdfOps, op)

\* The step is the start of a re-analysis: an invocation begins to wait for its call.
ReanalysisStartsInStep ==
    \E op \in BagToSet(pdfOps') : op.pc = "invoke" /\ pdfOps' = AddOp(pdfOps, op)

\* C1: a re-analysis in a language other than the held one whose analysis call fails
\* leaves the held record and the held language, of AnalysisResults and of Index, as
\* they were (neither its start nor the handling of the failure writes them), and
\* reports the error to the user in a toast.
C1_FailedReanalysisKeepsHeld ==
    [][/\ ReanalysisStartsInStep => UNCHANGED held
       /\ ReanalysisFailsInStep =>
            /\ UNCHANGED held
            /\ lastToast' = Toast("PDF Generation Failed", "analysis")]_vars

\* C1 witness: a re-analysis has just failed and the report is still shown.
C1_Witness ==
    /\ lastToast = Toast("PDF Generation Failed", "analysis")
    /\ Mounted
    /\ currentData = analysisData
    /\ ~isGeneratingPDF

\* C2: in every state the held language is the language of the request whose reply
\* is the held record, in Index and in the mounted AnalysisResults.
C2_HeldPairMatches ==
    Mounted => /\ analysisData[1].lang = language
               /\ currentData[1].lang = currentLanguage

\* The step starts an export in the language the report is held in.
SameLanguageExportStarts ==
    \E op \in BagToSet(pdfOps') : pdfOps' = AddOp(pdfOps, op) /\ op.sel = currentLanguage

\* The step ends an export that was started in the held language.
SameLanguageExportEnds ==
    \E op \in BagToSet(pdfOps) : ~op.reanalyzed /\ pdfOps' = DelOp(pdfOps, op)

\* C3: an export asked in the language the report is held in issues no analysis
\* call, at its start or later, and leaves the held record and language unchanged.
C3_SameLanguageNoCall ==
    [][(SameLanguageExportStarts \/ SameLanguageExportEnds) =>
          /\ Invoking' = Invoking
          /\ analyzeOp' = analyzeOp
          /\ UNCHANGED held]_vars

\* C3 witness: an export in the held language is capturing, and no call is pending.
C3_Witness ==
    /\ InFlight = 0
    /\ \E op \in BagToSet(pdfOps) :
         /\ op.pc = "canvas"
         /\ op.live
         /\ ~op.reanalyzed
         /\ op.sel = currentLanguage

\* C10: at most one analysis call is in flight at any time.
C10_AtMostOneInFlight == InFlight <= 1

\* The step is a step of an invocation of generatePDFInLanguage: it starts one, moves
\* one on or ends one (an unmount only orphans them).
ExportStep == pdfOps' # pdfOps /\ ~(Mounted /\ ~Mounted')

\* The step starts the invocation op.
StartsInStep(op) == op \in BagToSet(pdfOps') /\ pdfOps' = AddOp(pdfOps, op)

\* The step is the success of the analysis call of a re-analysis.
ReanalysisSucceedsInStep ==
    \E op \in BagToSet(pdfOps) :
       /\ op.pc = "invoke"
       /\ pdfOps' = MoveOp(pdfOps, op, [op EXCEPT !.pc = "timer", !.img = 0])

\* The step is the success of the analysis call of handleAnalyze.
AnalysisSucceedsInStep ==
    /\ analyzeOp # <<>>
    /\ analyzeOp' = <<>>
    /\ lastToast' = Toast("Analysis Complete", "analysis")

\* The step belongs to the capture part of the invocation op: the timer has fired
\* and html2canvas is called, or html2canvas has settled.
CaptureStepOf(op) ==
    /\ ExportStep
    /\ op \in BagToSet(pdfOps)
    /\ op.pc \in {"timer", "canvas"}
    /\ CopiesIn(op, pdfOps') < CopiesIn(op, pdfOps)

\* The step is the failure of the capture of the invocation op.
CaptureFailsInStep(op) ==
    /\ CaptureStepOf(op)
    /\ op.pc = "canvas"
    /\ lastSaved' = <<>>

\* C11: while a record is held, the held record and the held language are written
\* only by the step that stores the result of a successful analysis call.
C11_OnlyReplaceOnSuccessWrites ==
    [][(Mounted /\ Mounted' /\ ~UNCHANGED held)
         => (ReanalysisSucceedsInStep \/ AnalysisSucceedsInStep)]_vars

\* C12 as claimed: no step of an invocation of the export, whatever the language
\* selected, issues an analysis call or changes the held record or language.
C12_ExportNeverAnalyses ==
    [][ExportStep =>
         /\ BagCardinality(Invoking') <= BagCardinality(Invoking)
         /\ analyzeOp' = analyzeOp
         /\ UNCHANGED held]_vars

\* C12 amended: the capture part of an export (from the call of html2canvas to the
\* save) issues no analysis call and leaves the held record and language as they
\* are, and generatePDF and an export selected in the held language have no other
\* part; an export selected in another language first issues one analysis call, and the held record
\* and language change in a step of an export only when that call has succeeded.
C12_CaptureIsReadOnly ==
    [][ExportStep =>
         /\ analyzeOp' = analyzeOp
         /\ \A op \in BagToSet(pdfOps) :
               CaptureStepOf(op) => Invoking' = Invoking /\ UNCHANGED held
         /\ \A op \in BagToSet(pdfOps') :
               StartsInStep(op) =>
                 /\ UNCHANGED held
                 /\ IF results = 1 \/ op.sel = currentLanguage
                    THEN Invoking' = Invoking /\ op.pc = "canvas"
                    ELSE Invoking' = AddOp(Invoking, op)
         /\ ~UNCHANGED held => ReanalysisSucceedsInStep]_vars

\* C12 witness: an export selected in another language has analysed again, has
\* replaced the held record and language, and is now capturing.
C12_Witness ==
    \E op \in BagToSet(pdfOps) :
       /\ op.pc = "canvas" /\ op.live /\ op.reanalyzed
       /\ op.from # Held
       /\ currentLanguage = op.sel
       /\ InFlight = 0

\* C13: when the capture of an export fails, the failure is reported to the user
\* and the record and the language the report holds are those it held when the
\* export was invoked.
C13_CaptureFailureReportedHeldAsInvoked ==
    [][\A op \in BagToSet(pdfOps) :
         CaptureFailsInStep(op) =>
           /\ lastToast' = Toast("PDF Generation Failed", "capture")
           /\ op.live => Held' = op.from]_vars

\* The catalog entries that have the given code.
EntriesOf(code) == {i \in DOMAIN languages : languages[i].code = code}

\* C17: the codes of the catalog are pairwise distinct, and the held language and
\* the language of every analysis request are each the code of exactly one entry.
C17_LanguageIsACatalogCode ==
    /\ \A i, j \in DOMAIN languages : languages[i].code = languages[j].code => i = j
    /\ Cardinality(EntriesOf(language)) = 1
    /\ Mounted => Cardinality(EntriesOf(currentLanguage)) = 1
    /\ \A i \in DOMAIN analyzeOp : Cardinality(EntriesOf(analyzeOp[i].lang)) = 1
    /\ results = 2 => \A op \in BagToSet(pdfOps) : Cardinality(EntriesOf(op.sel)) = 1

\* C17 witness: a report is held in a language other than the initial one while a
\* re-analysis request in yet another selection is in flight.
C17_Witness ==
    /\ Mounted
    /\ currentLanguage = "kn"
    /\ \E op \in BagToSet(pdfOps) : op.pc = "invoke" /\ op.sel = "en"

\* C18: a document saved for the selected language L shows the language indicator
\* L and, in its cards and in its charts, the record of an analysis in L.
C18_SavedDocumentMatchesSelection ==
    (lastSaved # <<>> /\ lastSaved[1].sel \in Langs) =>
      /\ lastSaved[1].lang = lastSaved[1].sel
      /\ lastSaved[1].data = lastSaved[1].sel
      /\ lastSaved[1].chart = lastSaved[1].sel

\* C20: a held record implies a held source image.
C20_RecordImpliesImage == Mounted => imagePreview # 0

\* C22: a re-analysis whose analysis call fails exports nothing: the step that
\* handles the failure saves no document and ends the invocation, so that it never
\* captures; and the document saved by an invocation that analysed again shows the
\* language it is named for, in its indicator and in the record of its cards.
C22_FailedReanalysisSavesNothing ==
    [][/\ ReanalysisFailsInStep =>
            /\ lastSaved' = <<>>
            /\ BagCardinality(pdfOps') = BagCardinality(pdfOps) - 1
       /\ \A op \in BagToSet(pdfOps) :
            (op.reanalyzed /\ CaptureStepOf(op) /\ lastSaved' # <<>>) =>
               /\ lastSaved'[1].sel = op.sel
               /\ lastSaved'[1].lang = op.sel
               /\ lastSaved'[1].data = op.sel]_vars

\* C22 witness: a re-analysis has just failed: nothing is saved, no invocation is
\* left to capture, and the report is still held in the language it was held in.
C22_Witness ==
    /\ lastToast = Toast("PDF Generation Failed", "analysis")
    /\ lastSaved = <<>>
    /\ pdfOps = EmptyBag
    /\ Mounted
    /\ currentLanguage = "en"
    /\ currentData[1].lang = "en"

\* C23 (checked under FairSpec): a busy flag is true exactly while the operation
\* that set it is waiting (isAnalyzing while the call of handleAnalyze is pending,
\* isGeneratingPDF while an invocation of the export of the shown report has not
\* ended), and, every call settling, each flag that is set is cleared again.
C23_BusyFlagsAreCleared ==
    /\ [](isAnalyzing <=> analyzeOp # <<>>)
    /\ [](isGeneratingPDF <=> (results = 2 /\ \E op \in BagToSet(pdfOps) : op.live))
    /\ isAnalyzing ~> ~isAnalyzing
    /\ isGeneratingPDF ~> ~isGeneratingPDF

\* C23 witness: an analysis that was started has just failed, and its flag is
\* cleared: the Analyze button can be pressed again.
C23_Witness ==
    /\ lastToast = Toast("Analysis Failed", "analysis")
    /\ ~isAnalyzing
    /\ analyzeOp = <<>>
    /\ imagePreview # 0
    /\ ~Mounted

\* C21 (checked under UploadSpec): the held record is the reply to an analysis of
\* the image that is held: no file read that completes while the analysis call is
\* in flight replaces the image the reply is then stored for.
C21_RecordIsOfHeldImage == Mounted => analysisData[1].img = imagePreview

(***************************************************************************)
(* Properties of the service (checked under ServiceSpec)                   *)
(***************************************************************************)
Answered == hpc = "done" /\ req.method = "POST"

\* C4: a 200 response never carries a value that violates the AnalysisRecord schema.
C4_SuccessIsSchemaValid ==
    (Answered /\ resp.status = 200) => SchemaValid(JsonParse(resp.body).value[1])

\* A strategy succeeds on a text when the text parses to a value of the schema.
YieldsRecord(t) == JsonParse(t).ok /\ SchemaValid(JsonParse(t).value[1])

\* C5: the extraction fails only when each of the three strategies fails on the
\* reply: a fenced block whose interior does not parse does not end the extraction
\* while the brace span of the reply holds a record.
C5_FailsOnlyWhenAllStrategiesFail ==
    (Answered /\ reply.payload = "content" /\ reply.content # <<>> /\ resp.status = 500)
      => /\ ~YieldsRecord(reply.content)
         /\ ~YieldsRecord(FenceMatch(reply.content).group)
         /\ ~YieldsRecord(ObjectMatch(reply.content).group)

\* C6: the status of the response follows the outcome class of the upstream call:
\* 429 for an upstream 429, 402 for an upstream 402, 200 only with a value extracted
\* from a 2xx reply, 500 for every other failure; every failure body is {error}.
C6_StatusFollowsOutcome ==
    Answered =>
      /\ resp.status \in {200, 402, 429, 500}
      /\ resp.status = 429 <=> reply.status = 429
      /\ resp.status = 402 <=> reply.status = 402
      /\ resp.status = 200 =>
           /\ reply.status = 200 /\ reply.payload = "content"
           /\ resp.kind = "json" /\ JsonParse(resp.body).ok
      /\ resp.status # 200 => resp.kind = "error" /\ resp.error # ""
      /\ (~keyPresent \/ req.body # "object" \/ reply.status \in {0} \cup OtherStatuses
            \/ (reply.status = 200
                  /\ reply.payload \in {"unreadable", "notjson", "null", "nocontent"}))
           => resp.status = 500

\* C6 witness: an upstream 402 has been answered with a 402.
C6_Witness == Answered /\ reply.status = 402 /\ resp.status = 402

\* C7: an invocation that reaches the network step sends exactly one request,
\* whatever the outcome.
C7_ExactlyOneRequest ==
    /\ fetchCalls <= 1
    /\ hpc \in {"fetching", "readErrorText", "readReply"} => fetchCalls = 1
    /\ (hpc = "done" /\ reply # NoReply) => fetchCalls = 1

\* C7 witness: a rate-limited invocation has ended after one request.
C7_Witness == hpc = "done" /\ reply.status = 429 /\ fetchCalls = 1

\* C8 as claimed: without the credential an invocation fails with the configuration
\* error and sends no request.
C8_MissingKeyIsConfigurationError ==
    (Answered /\ ~keyPresent) =>
      /\ fetchCalls = 0
      /\ resp = Caught("LOVABLE_API_KEY is not configured")

\* C8 amended: without the credential an invocation sends no request and fails with
\* status 500; the error is the configuration error when the request body was read
\* as an object (a body that cannot be read fails first, with its own error).
C8_MissingKeyNoRequest ==
    ~keyPresent =>
      /\ fetchCalls = 0
      /\ reply = NoReply
      /\ Answered =>
           /\ resp.status = 500 /\ resp.kind = "error"
           /\ req.body = "object" => resp.error = "LOVABLE_API_KEY is not configured"

\* C8 witness: a readable request has been refused for want of the credential.
C8_Witness ==
    /\ Answered /\ ~keyPresent /\ req.body = "object"
    /\ resp = Caught("LOVABLE_API_KEY is not configured")

\* C9: every invocation ends by returning a response, never by an exception: a
\* suspended handler can always go on (whatever 2xx reply it reads, it makes a
\* response of it), and what it returns for an analysis request is a 200 with the
\* extracted value or an {error} failure.
C9_AlwaysAResponse ==
    /\ hpc = "readBody" => ENABLED BodyRead
    /\ hpc = "fetching" => ENABLED FetchReturn
    /\ hpc = "readErrorText" => ENABLED ErrorTextRead
    /\ hpc = "readReply" => ReplyResult(reply).resp.kind \in {"json", "error"}
    /\ hpc = "done" => resp.kind \in {"empty", "json", "error"}
    /\ Answered => \/ resp.status = 200 /\ resp.kind = "json"
                   \/ resp.status \in {402, 429, 500} /\ resp.kind = "error"

\* C9 witness: an unreadable request body has been answered with an {error} failure.
C9_Witness == Answered /\ req.body = "unreadable" /\ resp.kind = "error" /\ resp.status = 500

\* Prose around an embedded record: no brace, no backtick, and some words.
IsProse(t) == \A i \in DOMAIN t : t[i] \in {"p", "s"}
HasWords(t) == \E i \in DOMAIN t : t[i] = "p"

\* The text is the JSON text of the record of kind k, with white space around it.
IsJsonTextOf(t, k) ==
    LET n == Len(TextOf(k)) IN
    \E a \in 0..(Len(t) - n) :
       /\ SubSeq(t, a + 1, a + n) = TextOf(k)
       /\ \A i \in DOMAIN t : (i <= a \/ i > a + n) => t[i] = "s"

\* The text is prose around one fenced block, tagged json or not, whose interior is
\* the JSON text of the record of kind k.
IsFencedIn(t, k) ==
    \E i, j \in DOMAIN t :
       /\ i < j /\ t[i] = "F" /\ t[j] = "F"
       /\ IsProse(SubSeq(t, 1, i - 1)) /\ IsProse(SubSeq(t, j + 1, Len(t)))
       /\ HasWords(SubSeq(t, 1, i - 1)) \/ HasWords(SubSeq(t, j + 1, Len(t)))
       /\ \E tag \in {<<>>, <<"j">>} :
             IsJsonTextOf(SubSeq(t, i + Len(tag) + 1, j - 1), k)
             /\ SubSeq(t, i + 1, i + Len(tag)) = tag

\* The text is prose around the JSON text of the record of kind k, its only object.
IsBracedIn(t, k) ==
    \E i, j \in DOMAIN t :
       /\ i < j /\ SubSeq(t, i, j) = TextOf(k)
       /\ IsProse(SubSeq(t, 1, i - 1)) /\ IsProse(SubSeq(t, j + 1, Len(t)))
       /\ HasWords(SubSeq(t, 1, i - 1)) \/ HasWords(SubSeq(t, j + 1, Len(t)))

\* C14: a valid record embedded in a reply that is not JSON, in a fenced block with
\* prose around it or as the only object in prose, is extracted and returned as it
\* is, by the fenced-block strategy in the first case and by the brace-span strategy
\* in the second.
C14_EmbeddedRecordExtracted ==
    (Answered /\ reply.payload = "content") =>
      \A k \in ValidKinds :
         /\ IsFencedIn(reply.content, k) =>
               resp = SuccessResponse(FieldsOf(k)) /\ tried = {1, 2}
         /\ IsBracedIn(reply.content, k) =>
               resp = SuccessResponse(FieldsOf(k)) /\ tried = {1, 2, 3}

\* C15: the JSON text of a valid record is parsed by the first strategy to that
\* record, the order of the elements of its arrays kept, and the body of the 200
\* response is the serialization of that record.
C15_JsonTextRoundTrips ==
    (Answered /\ reply.payload = "content") =>
      \A k \in ValidKinds :
         IsJsonTextOf(reply.content, k) =>
           /\ tried = {1}
           /\ resp.status = 200 /\ resp.kind = "json"
           /\ resp.body = TextOf(k)
           /\ JsonParse(resp.body).value = <<FieldsOf(k)>>
           /\ JsonParse(resp.body).value[1].symptoms = FieldsOf(k).symptoms

\* C15 witness: the text of a record whose symptoms are in the other order has been
\* answered with that text.
C15_Witness ==
    /\ Answered
    /\ reply.content = <<"s", "{", "R", "}">>
    /\ resp.body = <<"{", "R", "}">>
    /\ tried = {1}

\* C16: a preflight request is answered at once with an empty 200 response, without
\* the body being read, the credential being looked at or a request being sent; and
\* every response returned carries the CORS headers.
C16_PreflightAndCors ==
    /\ req.method = "OPTIONS" =>
         /\ hpc = "done"
         /\ resp = [status |-> 200, kind |-> "empty", error |-> "", body |-> <<>>,
                    cors |-> TRUE]
         /\ fetchCalls = 0
         /\ reply = NoReply
    /\ hpc = "done" => resp.cors

\* C16 witness: a preflight sent to a service without credential, with a body that
\* cannot be read, has been answered.
C16_Witness ==
    /\ hpc = "done" /\ req.method = "OPTIONS" /\ ~keyPresent /\ req.body = "unreadable"
    /\ resp.status = 200 /\ resp.cors

\* C19: for an upstream non-2xx status other than 429 and 402 the response is the
\* one generic 500 failure, whatever the upstream status and body are.
C19_UpstreamFailureIsGeneric ==
    (Answered /\ reply.status \in OtherStatuses) =>
      resp = [status |-> 500, kind |-> "error", error |-> "Failed to analyze image",
              body |-> <<>>, cors |-> TRUE]

====
